---------------------------- MODULE Spec2Model ----------------------------
(***************************************************************************)
(* A model of the Qobuz client of streamrip-web-gui                        *)
(* (src/patches/streamrip/qobuz.py): secret discovery (QobuzSpoofer),      *)
(* the login handshake, track resolution (get_downloadable) and the        *)
(* quality probe (inspect_track_quality) of QobuzClient.                   *)
(*                                                                         *)
(* One client instance is modelled, with one call in progress at a time    *)
(* (the caller serialises the calls).  Every network call is split into    *)
(* the step that sends the request and the step that receives the          *)
(* response; the vendor's answers are chosen nondeterministically.         *)
(*                                                                         *)
(* Two more parts have their own specifications: _api_request under        *)
(* concurrent callers sharing the client's rate limiter (SpecLimiter),     *)
(* and the download queue of src/app.py with its worker threads and SSE    *)
(* broadcasts (SpecApp).                                                   *)
(***************************************************************************)
EXTENDS Integers, Sequences, FiniteSets, TLC

\* ------------------------------------------------------------------ bounds
\* Quality levels handed to get_downloadable / inspect_track_quality range
\* over -QSpan .. QSpan.
QSpan == 5
\* The bundle holds at most MaxSeeds matches of the seed/timezone pattern.
MaxSeeds == 3
\* A signed request is compared with the requests whose timestamp is in
\* 0 .. MaxTs.
MaxTs == 3
\* _api_request is called by NCallers concurrent tasks, on a limiter
\* configured for 1 .. MaxRate requests per minute.
NCallers == 3
MaxRate == 2
\* api_download queues at most MaxTasks tasks, within MaxMs milliseconds of
\* the first; a rip process prints at most MaxLines lines.
MaxTasks == 2
MaxMs == 1
MaxLines == 1

\* ------------------------------------------------------- program constants
\* QobuzClient.max_quality
max_quality == 4
\* app.py: MAX_CONCURRENT_DOWNLOADS, by default
MAX_CONCURRENT_DOWNLOADS == 2

\* Python's None, and a key that a JSON object does not have.
None == "None"

\* ------------------------------------------------------ python primitives
Min(a, b) == IF a < b THEN a ELSE b
Max(a, b) == IF a > b THEN a ELSE b

\* The tuple indexed by get_quality.
QualityTable == <<5, 6, 7, 27>>

\* tuple[i] of Python: 0-based, a negative index counts from the end, and an
\* index outside -len .. len-1 raises IndexError (here: the value 0 - 1).
IndexError == 0 - 1
PyIndex(t, i) ==
    IF i >= 0 /\ i < Len(t) THEN t[i + 1]
    ELSE IF i < 0 /\ i >= 0 - Len(t) THEN t[Len(t) + i + 1]
    ELSE IndexError

\* QobuzClient.get_quality: (5, 6, 7, 27)[quality - 1]
get_quality(quality) == PyIndex(QualityTable, quality - 1)

\* ------------------------------------------------------- secret discovery
\* What the scraped bundle holds, as far as get_app_id_and_secrets reads it:
\*   appid : whether app_id_regex matches,
\*   seeds : the matches of seed_timezone_regex, in bundle order,
\*   info  : the timezones for which info_extras_regex matches once.
Timezones == {"berlin", "london", "paris"}
\* "sx" is a seed whose concatenation with info and extras is not valid base64.
Seeds == {"s1", "sx"}
SeedMatches == [timezone : Timezones, seed : Seeds]
SeqsUpTo(S, n) == UNION {[1..k -> S] : k \in 0..n}
Bundles == [appid : BOOLEAN, seeds : SeqsUpTo(SeedMatches, MaxSeeds),
            info : SUBSET Timezones]

\* The text each timezone's entry decodes to when it decodes.
SecretOf == [berlin |-> "berlin-key", london |-> "london-key",
             paris |-> "paris-key"]

\* Lines 88-91: an OrderedDict filled in match order.  Assigning to a key the
\* dict already has keeps the key's position and replaces its value, so the
\* keys are the timezones in order of first appearance ...
RECURSIVE KeysInOrder(_)
KeysInOrder(seeds) ==
    IF seeds = <<>> THEN <<>>
    ELSE LET front == KeysInOrder(SubSeq(seeds, 1, Len(seeds) - 1))
             tz    == seeds[Len(seeds)].timezone
         IN  IF \E i \in 1..Len(front) : front[i] = tz THEN front
             ELSE Append(front, tz)

\* ... and each key's value is [seed] of its last match.
RECURSIVE SeedFor(_, _)
SeedFor(seeds, tz) ==
    IF seeds[Len(seeds)].timezone = tz THEN seeds[Len(seeds)].seed
    ELSE SeedFor(SubSeq(seeds, 1, Len(seeds) - 1), tz)

\* A plausible slip: the first discovered timezone is left in front.
MoveSecondToFront_mut(keys) == keys

\* Lines 93-94: keypairs = list(secrets.items());
\* secrets.move_to_end(keypairs[1][0], last=False).  Defined for Len(keys) >= 2.
MoveSecondToFront(keys) ==
    <<keys[2]>> \o SelectSeq(keys, LAMBDA k : k # keys[2])

\* Lines 96-102: the value list of a timezone, [seed] or [seed, info, extras].
ValueList(b, tz) ==
    <<SeedFor(b.seeds, tz)>> \o
    (IF tz \in b.info THEN <<"info", "extras">> ELSE <<>>)

\* Lines 105-107: base64.standard_b64decode("".join(v)[:-44]).decode("utf-8").
\* A seed alone is shorter than 44 characters, so nothing is left of it and the
\* result is the empty string; seed + info + extras decodes to the timezone's
\* secret, or raises when it is not base64.
DecodeError == "binascii.Error"
Decode(tz, v) ==
    IF Len(v) = 1 THEN ""
    ELSE IF v[1] = "sx" THEN DecodeError
    ELSE SecretOf[tz]

\* Lines 109-111: vals.remove("") removes the first empty string only.
RECURSIVE RemoveFirst(_, _)
RemoveFirst(vals, x) ==
    IF vals = <<>> THEN <<>>
    ELSE IF vals[1] = x THEN Tail(vals)
    ELSE <<vals[1]>> \o RemoveFirst(Tail(vals), x)

HasElem(s, x) == \E i \in 1..Len(s) : s[i] = x

\* QobuzSpoofer.get_app_id_and_secrets from the fetched bundle on (lines
\* 81-113): [err, app_id, secrets], err = None when it returns.
GetAppIdAndSecrets(b) ==
    LET fail(e) == [err |-> e, app_id |-> "", secrets |-> <<>>]
        keys0   == KeysInOrder(b.seeds)
    IN  IF ~b.appid THEN fail("Exception")
        ELSE IF Len(keys0) < 2 THEN fail("IndexError")
        ELSE LET keys == MoveSecondToFront(keys0)
                 dec  == [i \in 1..Len(keys) |->
                              Decode(keys[i], ValueList(b, keys[i]))]
             IN  IF HasElem(dec, DecodeError) THEN fail(DecodeError)
                 ELSE [err |-> None, app_id |-> "123456789",
                       secrets |-> RemoveFirst(dec, "")]

\* ------------------------------------------------------ vendor responses
\* user/login: the status and what resp["user"]["credential"]["parameters"]
\* finds: a non-empty object, an empty one, or no such key.
LoginStatuses == {200, 400, 401, 500}
LoginBodies == {"parameters", "empty-parameters", "no-user"}
LoginResponses == [status : LoginStatuses, body : LoginBodies]

\* track/getFileUrl: the status and what r.json() returns.  kind = "null" is
\* the None that r.json() returns for an empty body (and for the body null);
\* kind = "object" is a JSON object with or without the keys url, message,
\* error.
SigPhrase == "Invalid Request Signature"
MessageValues == {None, SigPhrase, "Track unavailable"}
ErrorValues == {None, SigPhrase}
NullBody == [kind |-> "null", url |-> FALSE, message |-> None, error |-> None]
FileBodies ==
    {NullBody} \cup
    [kind : {"object"}, url : BOOLEAN, message : MessageValues,
     error : ErrorValues]
FileStatuses == {200, 400, 404}
FileResponses == [status : FileStatuses, body : FileBodies]

\* ------------------------------------------------------------------ state
VARIABLES
    cfg,         \* config.session.qobuz: credentials, app_id, secrets
    file,        \* config.file.qobuz and its modified flag
    logged_in,   \* QobuzClient.logged_in
    secret,      \* QobuzClient.secret
    headers,     \* the names in self.session.headers
    pc,          \* where the call in progress stands; "idle" between calls
    call,        \* the call in progress, or the last one
    outcome,     \* "running", "ok", or the error the call raised
    netCalls,    \* network requests issued by this login so far
    start,       \* what the call found when it started
    discRan,     \* this login invoked the discovery
    bundle,      \* the bundle the discovery of this login scraped (<= 1)
    loginResps,  \* the user/login response of this login (<= 1)
    tried,       \* the secrets this login probed, with the server's verdicts
    callQ,       \* the quality argument of this resolve / probe
    sent,        \* the requests of this resolve / of the probe's current tier
    inflight,    \* track/getFileUrl requests awaiting their response
    resps,       \* the responses of this resolve / of the probe's current tier
    cur,         \* the probe's loop variable q
    results,     \* the probe's results list
    downloadable, \* the codec of the Downloadable the resolve returned
    spooferOpen, \* the QobuzSpoofer's aiohttp session is open
    track,       \* the track id argument of this resolve / probe
    clock        \* time.time(), counted in round trips from the first
                 \* request of this resolve / of the probe's current tier

\* QobuzClient._api_request under concurrent callers
VARIABLES
    requests_per_minute, \* config.session.downloads.requests_per_minute
    apiPc,       \* where each caller of _api_request stands
    apiUrl,      \* the endpoint each caller asked for
    apiOut,      \* how each caller's last call ended
    holders,     \* the callers inside `async with self.rate_limiter`
    admitted     \* the calls the limiter admitted in the running minute

\* app.py: the download queue, its workers and the SSE broadcasts
VARIABLES
    ms,                \* int(time.time() * 1000)
    download_queue,    \* the tasks put and not yet taken
    active_downloads,  \* the active_downloads dict: one [id, n] per key id
    worker,            \* where each DownloadWorker stands, and its task
    sse_log,           \* the broadcast_sse calls made for each task, in order
    sse_first,         \* the type of the first event broadcast with each id
    accepted,          \* the tasks api_download has queued so far
    reply,             \* the last reply of api_download
    task_done          \* the download_queue.task_done() calls for each task

loginVars == <<discRan, bundle, loginResps, tried, spooferOpen>>
fileUrlVars == <<callQ, sent, inflight, resps, cur, results,
                 downloadable, track, clock>>
clientVars == <<cfg, file, logged_in, secret, headers>>
qobuzVars == <<clientVars, pc, call, outcome, netCalls, start, loginVars,
               fileUrlVars>>
limiterVars == <<requests_per_minute, apiPc, apiUrl, apiOut, holders,
                 admitted>>
appVars == <<ms, download_queue, active_downloads, worker, sse_log,
             sse_first, accepted, reply, task_done>>
\* What the client's login, resolve and probe leave alone.
sideVars == <<limiterVars, appVars>>

vars == <<qobuzVars, limiterVars, appVars>>

StoredSecrets == <<"berlin-key", "london-key">>

\* A track id is the sequence of its characters; <<>> when there is none.
NoTrack == <<>>

\* The concurrent callers of _api_request and the vendor endpoints they call.
Callers == 1..NCallers
Endpoints == {"user/login", "track/getFileUrl"}

\* QobuzClient.__init__, line 136: a limiter for `rpm` requests per minute,
\* with no call of _api_request under way.
LimiterIdle(rpm) ==
    /\ requests_per_minute = rpm
    /\ apiPc = [c \in Callers |-> "idle"]
    /\ apiUrl = [c \in Callers |-> None]
    /\ apiOut = [c \in Callers |-> None]
    /\ holders = {}
    /\ admitted = 0

\* app.py, lines 38-41 and 159-160: an empty queue, no active download, and
\* MAX_CONCURRENT_DOWNLOADS workers blocked in download_queue.get().
Workers == 1..MAX_CONCURRENT_DOWNLOADS
NoTask == [id |-> 0 - 1, n |-> 0]
AppIdle ==
    /\ ms = 0
    /\ download_queue = <<>>
    /\ active_downloads = {}
    /\ worker = [w \in Workers |-> [pc |-> "get", task |-> NoTask, lines |-> 0]]
    /\ sse_log = [n \in 1..MaxTasks |-> <<>>]
    /\ sse_first = [id \in 0..MaxMs |-> None]
    /\ accepted = 0
    /\ reply = [status |-> 0, task_id |-> 0 - 1]
    /\ task_done = [n \in 1..MaxTasks |-> 0]

Snapshot == [logged_in |-> logged_in,
             needs |-> (cfg.app_id = "" \/ cfg.secrets = <<>>),
             file |-> file]

\* QobuzClient.__init__ (lines 133-139) over the configurations a process can
\* be started with: credentials present or not, app id and secrets persisted
\* or not.
Init ==
    /\ cfg \in [email_or_userid : {"", "user"},
                password_or_token : {"", "pw"},
                app_id : {"", "123456789"},
                secrets : {<<>>, StoredSecrets}]
    /\ file = [app_id |-> cfg.app_id, secrets |-> cfg.secrets,
               modified |-> FALSE]
    /\ logged_in = FALSE
    /\ secret = None
    /\ headers = {}
    /\ pc = "idle"
    /\ call = "init"
    /\ outcome = "ok"
    /\ netCalls = 0
    /\ start = Snapshot
    /\ discRan = FALSE
    /\ bundle = <<>>
    /\ loginResps = <<>>
    /\ tried = <<>>
    /\ callQ = 0
    /\ sent = <<>>
    /\ inflight = 0
    /\ resps = <<>>
    /\ cur = 0
    /\ results = <<>>
    /\ downloadable = None
    /\ spooferOpen = FALSE
    /\ track = NoTrack
    /\ clock = 0
    /\ LimiterIdle(1)
    /\ AppIdle

\* The call in progress ends: it returned ("ok") or raised `e`.
Ends(e) == pc' = "idle" /\ outcome' = e

\* Observations of a call are per call: a new call starts from empty ones.
ResetLogin ==
    /\ discRan' = FALSE
    /\ bundle' = <<>>
    /\ loginResps' = <<>>
    /\ tried' = <<>>
    /\ spooferOpen' = FALSE

ResetFileUrl ==
    /\ callQ' = 0
    /\ sent' = <<>>
    /\ inflight' = 0
    /\ resps' = <<>>
    /\ cur' = 0
    /\ results' = <<>>
    /\ downloadable' = None
    /\ track' = NoTrack
    /\ clock' = 0

\* ------------------------------------------------------------------ login
\* A plausible slip: `and` for `or`.
CredentialsMissing_mut(c) ==
    c.email_or_userid = "" /\ c.password_or_token = ""

\* Line 147: not c.email_or_userid or not c.password_or_token
CredentialsMissing(c) ==
    c.email_or_userid = "" \/ c.password_or_token = ""

\* Line 150: not c.app_id or not c.secrets
NeedsDiscovery(c) == c.app_id = "" \/ c.secrets = <<>>

\* Lines 158-174: the X-App-Id header is attached and user/login is called.
SendUserLogin ==
    /\ headers' = headers \cup {"X-App-Id"}
    /\ netCalls' = netCalls + 1
    /\ pc' = "user_login"
    /\ outcome' = "running"

\* A plausible slip: the session is left open.
aexit_mut(open) == open

\* QobuzSpoofer.__aexit__, lines 124-126: the session, if there is one, is
\* closed.
aexit(open) == FALSE

\* QobuzSpoofer.__aenter__, lines 115-122: a session is created.
aenter == TRUE

\* The discovery runs inside `async with QobuzSpoofer() as spoofer`: however
\* the scope is left, __aexit__ runs.
SpooferScopeExit == spooferOpen' = aexit(spooferOpen)

\* login() up to its first network call (lines 141-174): a new session, the
\* credentials check, then either the discovery's fetch of the login page or
\* the user/login call.
LoginStart ==
    /\ pc = "idle"
    /\ call' = "login"
    /\ start' = Snapshot
    /\ bundle' = <<>>
    /\ loginResps' = <<>>
    /\ tried' = <<>>
    /\ ResetFileUrl
    /\ IF CredentialsMissing(cfg)
       THEN /\ Ends("MissingCredentialsError")
            /\ headers' = {}
            /\ netCalls' = 0
            /\ discRan' = FALSE
            /\ spooferOpen' = FALSE
       ELSE IF NeedsDiscovery(cfg)
       THEN /\ pc' = "disc_page"
            /\ outcome' = "running"
            /\ headers' = {}
            /\ netCalls' = 1
            /\ discRan' = TRUE
            /\ spooferOpen' = aenter
       ELSE /\ pc' = "user_login"
            /\ outcome' = "running"
            /\ headers' = {"X-App-Id"}
            /\ netCalls' = 1
            /\ discRan' = FALSE
            /\ spooferOpen' = FALSE
    /\ UNCHANGED <<cfg, file, logged_in, secret, sideVars>>

\* get_app_id_and_secrets, lines 68-78: the login page arrives; without the
\* bundle path in it the assert of line 75 fails, else the bundle is fetched.
DiscoveryPage ==
    /\ pc = "disc_page"
    /\ \E hasBundlePath \in BOOLEAN :
          IF hasBundlePath
          THEN /\ pc' = "disc_bundle"
               /\ netCalls' = netCalls + 1
               /\ UNCHANGED <<outcome, spooferOpen>>
          ELSE /\ Ends("AssertionError")
               /\ SpooferScopeExit
               /\ UNCHANGED netCalls
    /\ UNCHANGED <<clientVars, call, start, discRan, bundle, loginResps,
                   tried, fileUrlVars, sideVars>>

\* The task running login() is cancelled while the discovery awaits the
\* login page or the bundle (lines 68 and 78): CancelledError is raised at
\* the await and leaves the scope.
DiscoveryCancelled ==
    /\ pc \in {"disc_page", "disc_bundle"}
    /\ Ends("CancelledError")
    /\ SpooferScopeExit
    /\ UNCHANGED <<clientVars, call, netCalls, start, discRan, bundle,
                   loginResps, tried, fileUrlVars, sideVars>>

\* A plausible slip: the discovered values reach the session but not the file.
StoreDiscovered_mut(r) ==
    /\ cfg' = [cfg EXCEPT !.app_id = r.app_id, !.secrets = r.secrets]
    /\ UNCHANGED file

\* Lines 152-156: c.app_id, c.secrets = ...; f.qobuz.app_id = c.app_id;
\* f.qobuz.secrets = c.secrets; f.set_modified()
StoreDiscovered(r) ==
    /\ cfg' = [cfg EXCEPT !.app_id = r.app_id, !.secrets = r.secrets]
    /\ file' = [app_id |-> r.app_id, secrets |-> r.secrets, modified |-> TRUE]

\* get_app_id_and_secrets, lines 79-113, and login's lines 152-174: the bundle
\* arrives and is scraped; what the scrape raises ends login, what it returns
\* is stored and user/login is called.
DiscoveryBundle ==
    /\ pc = "disc_bundle"
    /\ \E b \in Bundles :
          LET r == GetAppIdAndSecrets(b)
          IN  /\ bundle' = <<b>>
              /\ SpooferScopeExit
              /\ IF r.err # None
                 THEN /\ Ends(r.err)
                      /\ UNCHANGED <<cfg, file, headers, netCalls>>
                 ELSE /\ StoreDiscovered(r)
                      /\ SendUserLogin
    /\ UNCHANGED <<logged_in, secret, call, start, discRan, loginResps, tried,
                   fileUrlVars, sideVars>>

\* A plausible slip: the two status checks swapped.
LoginError_mut(status, body) ==
    IF status = 400 THEN "AuthenticationError"
    ELSE IF status = 401 THEN "InvalidAppIdError"
    ELSE IF body = "no-user" THEN "KeyError"
    ELSE IF body = "empty-parameters" THEN "IneligibleError"
    ELSE None

\* Lines 176-182: what login raises on the user/login response, None if
\* nothing.
LoginError(status, body) ==
    IF status = 401 THEN "AuthenticationError"
    ELSE IF status = 400 THEN "InvalidAppIdError"
    ELSE IF body = "no-user" THEN "KeyError"
    ELSE IF body = "empty-parameters" THEN "IneligibleError"
    ELSE None

\* Lines 174-188: the user/login response arrives; on success the token header
\* is attached and _get_valid_secret sends its first probe.
LoginResponse ==
    /\ pc = "user_login"
    /\ \E r \in LoginResponses :
          /\ loginResps' = <<r>>
          /\ IF LoginError(r.status, r.body) # None
             THEN /\ Ends(LoginError(r.status, r.body))
                  /\ UNCHANGED <<headers, netCalls>>
             ELSE /\ headers' = headers \cup {"X-User-Auth-Token"}
                  /\ netCalls' = netCalls + 1
                  /\ pc' = "test_secret"
                  /\ UNCHANGED outcome
    /\ UNCHANGED <<cfg, file, logged_in, secret, call, start, discRan, bundle,
                   tried, spooferOpen, fileUrlVars, sideVars>>

\* _get_valid_secret(c.secrets): the secrets are probed one at a time in list
\* order; the first the server accepts is returned, and InvalidAppSecretError
\* is raised when the list is exhausted.
TestSecret ==
    /\ pc = "test_secret"
    /\ \E ok \in BOOLEAN :
          /\ tried' = Append(tried, [secret |-> cfg.secrets[Len(tried) + 1],
                                     accepted |-> ok])
          /\ IF ok
             THEN /\ pc' = "got_secret"
                  /\ UNCHANGED <<outcome, netCalls>>
             ELSE IF Len(tried) + 1 = Len(cfg.secrets)
             THEN /\ Ends("InvalidAppSecretError")
                  /\ UNCHANGED netCalls
             ELSE /\ netCalls' = netCalls + 1
                  /\ UNCHANGED <<pc, outcome>>
    /\ UNCHANGED <<clientVars, call, start, discRan, bundle, loginResps,
                   spooferOpen, fileUrlVars, sideVars>>

\* A plausible slip: the head of the list is kept instead of the validated one.
LoginFinish_mut ==
    /\ pc = "got_secret"
    /\ secret' = cfg.secrets[1]
    /\ logged_in' = TRUE
    /\ Ends("ok")
    /\ UNCHANGED <<cfg, file, headers, call, netCalls, start, loginVars,
                   fileUrlVars, sideVars>>

\* Lines 188-189: self.secret = <the validated secret>; self.logged_in = True
LoginFinish ==
    /\ pc = "got_secret"
    /\ secret' = tried[Len(tried)].secret
    /\ logged_in' = TRUE
    /\ Ends("ok")
    /\ UNCHANGED <<cfg, file, headers, call, netCalls, start, loginVars,
                   fileUrlVars, sideVars>>

\* ---------------------------------------------------------------- resolve
QInputs == (0 - QSpan)..QSpan

\* The track ids handed to get_downloadable / inspect_track_quality.
Tracks == {<<"1", "7">>, <<"1", "7", "1">>}

\* str() of a natural number, as the sequence of its characters.
DigitChars == <<"0", "1", "2", "3", "4", "5", "6", "7", "8", "9">>
RECURSIVE Str(_)
Str(n) ==
    IF n < 10 THEN <<DigitChars[n + 1]>>
    ELSE Str(n \div 10) \o <<DigitChars[(n % 10) + 1]>>

\* str() of the float time.time() returns; the model's clock counts whole
\* seconds, which print as "<digits>.0".
TsStr(ts) == Str(ts) \o <<".", "0">>

\* The characters of each secret (shortened to two).
SecretText(sec) ==
    CASE sec = "berlin-key" -> <<"b", "0">>
      [] sec = "london-key" -> <<"1", "0">>
      [] sec = "paris-key" -> <<"0", "b">>
      [] sec = None -> <<"N", "o", "n", "e">>
      [] OTHER -> <<>>

\* A plausible slip: the timestamp left out of the signed text.
SignedString_mut(track_id, format_id, ts, sec) ==
    <<"trackgetFileUrlformat_id">> \o Str(format_id)
        \o <<"intentstreamtrack_id">> \o track_id \o SecretText(sec)

\* Line 243: the text whose MD5 digest is the signature,
\* f"trackgetFileUrlformat_id{quality}intentstreamtrack_id{track_id}{ts}{secret}"
\* as the sequence of its characters (each literal part kept as one element).
SignedString(track_id, format_id, ts, sec) ==
    <<"trackgetFileUrlformat_id">> \o Str(format_id)
        \o <<"intentstreamtrack_id">> \o track_id \o TsStr(ts)
        \o SecretText(sec)

\* A plausible slip: the level sent where the format id belongs.
FileUrlRequest_mut(track_id, q, sec, ts) ==
    [quality |-> q,
     signed |-> SignedString(track_id, get_quality(q), ts, sec),
     request_ts |-> ts,
     track_id |-> track_id,
     format_id |-> q,
     intent |-> "stream"]

\* _request_file_url, lines 240-254: the request it sends for a level whose
\* format id get_quality found, at time ts.  `signed` is the text whose MD5
\* digest is sent as request_sig; `quality` is the level asked for, which is
\* not sent.
FileUrlRequest(track_id, q, sec, ts) ==
    [quality |-> q,
     signed |-> SignedString(track_id, get_quality(q), ts, sec),
     request_ts |-> ts,
     track_id |-> track_id,
     format_id |-> get_quality(q),
     intent |-> "stream"]

\* Lines 193-194 of get_downloadable: what it raises on the response, None if
\* nothing.  `"url" not in resp` on the None of an empty body is a TypeError.
ResolveError(r) ==
    IF r.status # 200 THEN "NonStreamableError"
    ELSE IF r.body.kind = "null" THEN "TypeError"
    ELSE IF ~r.body.url THEN "NonStreamableError"
    ELSE None

\* get_downloadable up to its network call (lines 191-192, 240-254), on a
\* client that has logged in: get_quality raises or the request is sent.
ResolveStart ==
    /\ pc = "idle"
    /\ logged_in
    /\ \E q \in QInputs, item \in Tracks :
          /\ callQ' = q
          /\ track' = item
          /\ IF get_quality(q) = IndexError
             THEN /\ Ends("IndexError")
                  /\ sent' = <<>>
                  /\ inflight' = 0
             ELSE /\ pc' = "file_url"
                  /\ outcome' = "running"
                  /\ sent' = <<FileUrlRequest(item, q, secret, 0)>>
                  /\ inflight' = 1
    /\ netCalls' = 0
    /\ call' = "resolve"
    /\ start' = Snapshot
    /\ ResetLogin
    /\ clock' = 0
    /\ resps' = <<>>
    /\ cur' = 0
    /\ results' = <<>>
    /\ downloadable' = None
    /\ UNCHANGED <<clientVars, sideVars>>

\* Lines 192-201: the response arrives; NonStreamableError or the Downloadable.
ResolveResponse ==
    /\ pc = "file_url"
    /\ call = "resolve"
    /\ \E r \in FileResponses :
          /\ resps' = <<r>>
          /\ IF ResolveError(r) # None
             THEN /\ Ends(ResolveError(r))
                  /\ UNCHANGED downloadable
             ELSE /\ Ends("ok")
                  /\ downloadable' = IF callQ > 1 THEN "flac" ELSE "mp3"
    /\ inflight' = 0
    /\ clock' = clock + 1
    /\ UNCHANGED <<clientVars, call, netCalls, start, loginVars, callQ, sent,
                   cur, results, track, sideVars>>

Next ==
    \/ LoginStart
    \/ DiscoveryPage
    \/ DiscoveryBundle
    \/ DiscoveryCancelled
    \/ LoginResponse
    \/ TestSecret
    \/ LoginFinish
    \/ ResolveStart
    \/ ResolveResponse

Spec == Init /\ [][Next]_vars

\* ------------------------------------------------------------------ probe
\* A plausible slip: the lower clamp forgotten.
ClampQuality_mut(mq) == Min(mq, max_quality)

\* Line 206: max(1, min(max_quality, self.max_quality))
ClampQuality(mq) == Max(1, Min(mq, max_quality))

\* A plausible slip: every 400 is retried.
SignatureRejected_mut(r) == r.status = 400

\* Line 212: status == 400 and "Invalid Request Signature" in str(resp).
\* str(None) is "None"; the str of an object holds the phrase when one of its
\* values does.
SignatureRejected(r) ==
    /\ r.status = 400
    /\ r.body.kind = "object"
    /\ (r.body.message = SigPhrase \/ r.body.error = SigPhrase)

\* Line 231: resp.get("message") or resp.get("error")
MessageOrError(body) ==
    IF body.message # None THEN body.message ELSE body.error

\* Lines 215-233: what the probe raises on the tier's final response, None if
\* it records an entry.  On the None of an empty body, `"url" in resp` is a
\* TypeError and resp.get an AttributeError.
RecordError(r) ==
    IF r.body.kind # "null" THEN None
    ELSE IF r.status = 200 THEN "TypeError"
    ELSE "AttributeError"

\* Lines 215-233: the entry recorded for tier q on its final response (the
\* bit_depth and sampling_rate it copies from the body are left out).
TierEntry(q, r) ==
    IF r.status = 200 /\ r.body.url
    THEN [quality_level |-> q, format_id |-> get_quality(q),
          available |-> TRUE, error |-> None]
    ELSE [quality_level |-> q, format_id |-> get_quality(q),
          available |-> FALSE, error |-> MessageOrError(r.body)]

\* A plausible slip: the request is started as a task and not awaited.
Awaited_mut(n) == n

\* Lines 210 and 213, `await self._request_file_url(...)`: the probe goes on
\* when the response of its request has arrived, so of n requests in flight
\* n - 1 are left.
Awaited(n) == n - 1

\* Lines 203-207: the assert holds on a client that has logged in; the level
\* is clamped and the loop variable starts at it.
ProbeStart ==
    /\ pc = "idle"
    /\ logged_in
    /\ secret # None
    /\ \E mq \in QInputs, track_id \in Tracks :
          /\ callQ' = mq
          /\ track' = track_id
          /\ cur' = ClampQuality(mq)
    /\ call' = "probe"
    /\ pc' = "probe_next"
    /\ outcome' = "running"
    /\ start' = Snapshot
    /\ netCalls' = 0
    /\ ResetLogin
    /\ sent' = <<>>
    /\ inflight' = 0
    /\ resps' = <<>>
    /\ results' = <<>>
    /\ downloadable' = None
    /\ clock' = 0
    /\ UNCHANGED <<clientVars, sideVars>>

\* Lines 209-210 and 235: range(max_quality, 0, -1) is exhausted and the
\* results are returned, or the first request of tier q is sent.
ProbeNext ==
    /\ pc = "probe_next"
    /\ IF cur < 1
       THEN /\ Ends("ok")
            /\ UNCHANGED <<sent, inflight, resps, clock>>
       ELSE IF get_quality(cur) = IndexError
       THEN /\ Ends("IndexError")
            /\ UNCHANGED <<sent, inflight, resps, clock>>
       ELSE /\ clock' = 0
            /\ sent' = <<FileUrlRequest(track, cur, secret, 0)>>
            /\ inflight' = inflight + 1
            /\ resps' = <<>>
            /\ pc' = "probe_first"
            /\ UNCHANGED outcome
    /\ UNCHANGED <<clientVars, call, netCalls, start, loginVars, callQ, cur,
                   results, downloadable, track, sideVars>>

\* Lines 215-233 on the tier's final response r: the probe raises, or appends
\* the entry and steps the loop variable.
RecordTier(r) ==
    IF RecordError(r) # None
    THEN /\ Ends(RecordError(r))
         /\ UNCHANGED <<results, cur>>
    ELSE /\ results' = Append(results, TierEntry(cur, r))
         /\ cur' = cur - 1
         /\ pc' = "probe_next"
         /\ UNCHANGED outcome

\* Lines 210-233: the first response of the tier arrives; a signature
\* rejection sends the same request once more, anything else is final.
ProbeFirstResponse ==
    /\ pc = "probe_first"
    /\ \E r \in FileResponses :
          /\ resps' = <<r>>
          /\ IF SignatureRejected(r)
             THEN /\ sent' = Append(sent, FileUrlRequest(track, cur, secret,
                                                       clock + 1))
                  /\ inflight' = Awaited(inflight) + 1
                  /\ pc' = "probe_retry"
                  /\ UNCHANGED <<outcome, results, cur>>
             ELSE /\ inflight' = Awaited(inflight)
                  /\ RecordTier(r)
                  /\ UNCHANGED sent
    /\ clock' = clock + 1
    /\ UNCHANGED <<clientVars, call, netCalls, start, loginVars, callQ,
                   downloadable, track, sideVars>>

\* Lines 213-233: the response of the retry arrives and is final.
ProbeRetryResponse ==
    /\ pc = "probe_retry"
    /\ \E r \in FileResponses :
          /\ resps' = Append(resps, r)
          /\ inflight' = Awaited(inflight)
          /\ RecordTier(r)
    /\ clock' = clock + 1
    /\ UNCHANGED <<clientVars, call, start, loginVars, callQ, sent,
                   netCalls, downloadable, track, sideVars>>

\* A client on which login() has succeeded with the persisted app id and
\* secrets, the server having accepted the first secret.
LoggedInQobuz ==
    /\ cfg = [email_or_userid |-> "user", password_or_token |-> "pw",
              app_id |-> "123456789", secrets |-> StoredSecrets]
    /\ file = [app_id |-> "123456789", secrets |-> StoredSecrets,
               modified |-> FALSE]
    /\ logged_in = TRUE
    /\ secret = "berlin-key"
    /\ headers = {"X-App-Id", "X-User-Auth-Token"}
    /\ pc = "idle"
    /\ call = "login"
    /\ outcome = "ok"
    /\ netCalls = 2
    /\ start = [logged_in |-> FALSE, needs |-> FALSE, file |-> file]
    /\ discRan = FALSE
    /\ bundle = <<>>
    /\ loginResps = <<[status |-> 200, body |-> "parameters"]>>
    /\ tried = <<[secret |-> "berlin-key", accepted |-> TRUE]>>
    /\ callQ = 0
    /\ sent = <<>>
    /\ inflight = 0
    /\ resps = <<>>
    /\ cur = 0
    /\ results = <<>>
    /\ downloadable = None
    /\ spooferOpen = FALSE
    /\ track = NoTrack
    /\ clock = 0

LoggedInClient ==
    /\ LoggedInQobuz
    /\ LimiterIdle(1)
    /\ AppIdle

NextProbe ==
    \/ ResolveStart
    \/ ResolveResponse
    \/ ProbeStart
    \/ ProbeNext
    \/ ProbeFirstResponse
    \/ ProbeRetryResponse

\* The resolve and the probe, called any number of times on a logged-in
\* client.
SpecProbe == LoggedInClient /\ [][NextProbe]_vars

\* ------------------------------------------------------------ rate limiter
\* QobuzClient._api_request (lines 256-260) called by concurrent tasks that
\* share the client's limiter.  The limiter is what get_rate_limiter(
\* requests_per_minute) returns: entering it blocks until the minute's budget
\* has room, and leaving it gives the permit back.

\* Line 256: a task calls _api_request(epoint, params) and reaches line 258.
ApiCall(c) ==
    /\ apiPc[c] = "idle"
    /\ \E epoint \in Endpoints : apiUrl' = [apiUrl EXCEPT ![c] = epoint]
    /\ apiPc' = [apiPc EXCEPT ![c] = "acquire"]
    /\ apiOut' = [apiOut EXCEPT ![c] = "running"]
    /\ UNCHANGED <<requests_per_minute, holders, admitted, qobuzVars, appVars>>

\* The limiter admits a call while the running minute's budget has room.
LimiterHasRoom == admitted < requests_per_minute

\* Line 258, `async with self.rate_limiter:` entered: the caller holds a
\* permit.
LimiterEnter(c) ==
    /\ apiPc[c] = "acquire"
    /\ LimiterHasRoom
    /\ admitted' = admitted + 1
    /\ holders' = holders \cup {c}
    /\ apiPc' = [apiPc EXCEPT ![c] = "entered"]
    /\ UNCHANGED <<requests_per_minute, apiUrl, apiOut, qobuzVars, appVars>>

\* Line 259: self.session.get(url, params=params) sends the request.
SessionGet(c) ==
    /\ apiPc[c] = "entered"
    /\ apiPc' = [apiPc EXCEPT ![c] = "in_flight"]
    /\ UNCHANGED <<requests_per_minute, apiUrl, apiOut, holders, admitted,
                   qobuzVars, appVars>>

\* A plausible slip: acquire and release called by hand, the release skipped
\* when the call raises.
ExitOnRaise_mut(c) == UNCHANGED holders

\* Line 258: the `async with` block is left by an exception; the limiter's
\* __aexit__ runs all the same.
ExitOnRaise(c) == holders' = holders \ {c}

\* Line 260: return r.status, await r.json(), out of both `async with` blocks.
ApiReturn(c) ==
    /\ apiPc[c] = "in_flight"
    /\ holders' = holders \ {c}
    /\ apiPc' = [apiPc EXCEPT ![c] = "idle"]
    /\ apiOut' = [apiOut EXCEPT ![c] = "returned"]
    /\ UNCHANGED <<requests_per_minute, apiUrl, admitted, qobuzVars, appVars>>

\* Lines 259-260: session.get or r.json() raises (a connection error, a
\* timeout, a body that is not JSON).
ApiRaise(c) ==
    /\ apiPc[c] = "in_flight"
    /\ ExitOnRaise(c)
    /\ apiPc' = [apiPc EXCEPT ![c] = "idle"]
    /\ apiOut' = [apiOut EXCEPT ![c] = "raised"]
    /\ UNCHANGED <<requests_per_minute, apiUrl, admitted, qobuzVars, appVars>>

\* A minute has passed: the budget is whole again.
MinuteElapses ==
    /\ admitted > 0
    /\ admitted' = 0
    /\ UNCHANGED <<requests_per_minute, apiPc, apiUrl, apiOut, holders,
                   qobuzVars, appVars>>

InitLimiter ==
    /\ LoggedInQobuz
    /\ \E rpm \in 1..MaxRate : LimiterIdle(rpm)
    /\ AppIdle

NextLimiter ==
    \/ \E c \in Callers : ApiCall(c)
    \/ \E c \in Callers : LimiterEnter(c)
    \/ \E c \in Callers : SessionGet(c)
    \/ \E c \in Callers : ApiReturn(c)
    \/ \E c \in Callers : ApiRaise(c)
    \/ MinuteElapses

\* _api_request, called concurrently any number of times.
SpecLimiter == InitLimiter /\ [][NextLimiter]_vars

\* ----------------------------------------------------------------- app.py
\* A task is [id, n]: the id api_download gave it, and n, its rank among the
\* tasks queued (which the program does not keep).  url, quality and metadata
\* are left out.

\* Lines 46-55: broadcast_sse(data) puts the message on the queue of every
\* connected client, so that every client receives the messages in the order
\* of the calls.  Of data, the type, the id and the status (None where there
\* is none) are kept; of the order, the order of the events of each task and
\* the first event of each id.
broadcast_sse(type, task, status) ==
    /\ sse_log' = [sse_log EXCEPT ![task.n] =
                       Append(@, [type |-> type, id |-> task.id,
                                  status |-> status])]
    /\ sse_first' = IF sse_first[task.id] = None
                    THEN [sse_first EXCEPT ![task.id] = type]
                    ELSE sse_first

\* time.time() moves on by a millisecond. The clock is read by api_download
\* alone, when it names a task, so it is followed up to the last task only.
MsTick ==
    /\ ms < MaxMs
    /\ accepted < MaxTasks
    /\ ms' = ms + 1
    /\ UNCHANGED <<download_queue, active_downloads, worker, sse_log,
                   sse_first, accepted, reply, task_done, qobuzVars,
                   limiterVars>>

\* Lines 170-188: api_download answers 400 to a request without url, and
\* queues a task named after the millisecond otherwise.
api_download ==
    /\ \E url \in {"", "https://open.qobuz.com/album/1"} :
          IF url = ""
          THEN /\ reply' = [status |-> 400, task_id |-> 0 - 1]
               /\ UNCHANGED <<download_queue, accepted>>
          ELSE /\ accepted < MaxTasks
               /\ download_queue' =
                     Append(download_queue, [id |-> ms, n |-> accepted + 1])
               /\ accepted' = accepted + 1
               /\ reply' = [status |-> 200, task_id |-> ms]
    /\ UNCHANGED <<ms, active_downloads, worker, sse_log, sse_first,
                   task_done, qobuzVars, limiterVars>>

\* Line 97, active_downloads[task_id] = {...}: the entry of the key is set,
\* whether the dict had the key or not.
dict_set(d, task) == {e \in d : e.id # task.id} \cup {task}

\* A plausible slip: the entry is removed on the success path only.
dict_pop_mut(d, key) == d

\* Line 156, active_downloads.pop(task_id, None): the entry of the key is
\* removed if there is one.
dict_pop(d, key) == {e \in d : e.id # key}

\* Lines 87-101: the worker takes the next task off the queue and enters it in
\* active_downloads.
WorkerGet(w) ==
    /\ worker[w].pc = "get"
    /\ download_queue # <<>>
    /\ worker' = [worker EXCEPT ![w] = [pc |-> "started",
                                        task |-> Head(download_queue),
                                        lines |-> 0]]
    /\ download_queue' = Tail(download_queue)
    /\ active_downloads' = dict_set(active_downloads, Head(download_queue))
    /\ UNCHANGED <<ms, sse_log, sse_first, accepted, reply, task_done,
                   qobuzVars, limiterVars>>

\* A plausible slip: the download_started broadcast left out.
WorkerStarted_mut(w) ==
    /\ worker[w].pc = "started"
    /\ worker' = [worker EXCEPT ![w].pc = "popen"]
    /\ UNCHANGED <<ms, download_queue, active_downloads, sse_log, sse_first,
                   accepted, reply, task_done, qobuzVars, limiterVars>>

\* Lines 103-107: download_started is broadcast.
WorkerStarted(w) ==
    /\ worker[w].pc = "started"
    /\ broadcast_sse("download_started", worker[w].task, None)
    /\ worker' = [worker EXCEPT ![w].pc = "popen"]
    /\ UNCHANGED <<ms, download_queue, active_downloads, accepted, reply,
                   task_done, qobuzVars, limiterVars>>

\* Lines 117-123: subprocess.Popen starts rip.
WorkerPopen(w) ==
    /\ worker[w].pc = "popen"
    /\ worker' = [worker EXCEPT ![w].pc = "reading"]
    /\ UNCHANGED <<ms, download_queue, active_downloads, sse_log, sse_first,
                   accepted, reply, task_done, qobuzVars, limiterVars>>

\* Lines 125-133: rip prints a line; download_progress is broadcast.
WorkerLine(w) ==
    /\ worker[w].pc = "reading"
    /\ worker[w].lines < MaxLines
    /\ broadcast_sse("download_progress", worker[w].task, None)
    /\ worker' = [worker EXCEPT ![w].lines = @ + 1]
    /\ UNCHANGED <<ms, download_queue, active_downloads, accepted, reply,
                   task_done, qobuzVars, limiterVars>>

\* Lines 125 and 135-145: rip's output ends, proc.wait() returns and
\* download_completed is broadcast, with status completed for exit code 0 and
\* failed for any other.
WorkerExit(w) ==
    /\ worker[w].pc = "reading"
    /\ \E returncode \in {0, 1} :
          broadcast_sse("download_completed", worker[w].task,
                        IF returncode = 0 THEN "completed" ELSE "failed")
    /\ worker' = [worker EXCEPT ![w].pc = "finally"]
    /\ UNCHANGED <<ms, download_queue, active_downloads, accepted, reply,
                   task_done, qobuzVars, limiterVars>>

\* A plausible slip: the except clause left out, so that an exception reaches
\* the finally clause with nothing broadcast.
WorkerRaises_mut(w) ==
    /\ worker[w].pc \in {"popen", "reading"}
    /\ worker' = [worker EXCEPT ![w].pc = "finally"]
    /\ UNCHANGED <<ms, download_queue, active_downloads, sse_log, sse_first,
                   accepted, reply, task_done, qobuzVars, limiterVars>>

\* Lines 148-153: Popen raises (rip is not installed), or reading rip's
\* output does (it is not valid text); download_error is broadcast.
WorkerRaises(w) ==
    /\ worker[w].pc \in {"popen", "reading"}
    /\ broadcast_sse("download_error", worker[w].task, None)
    /\ worker' = [worker EXCEPT ![w].pc = "finally"]
    /\ UNCHANGED <<ms, download_queue, active_downloads, accepted, reply,
                   task_done, qobuzVars, limiterVars>>

\* Lines 155-157: active_downloads.pop(task_id, None) and
\* download_queue.task_done(); the worker goes back to download_queue.get().
WorkerFinally(w) ==
    /\ worker[w].pc = "finally"
    /\ active_downloads' = dict_pop(active_downloads, worker[w].task.id)
    /\ task_done' = [task_done EXCEPT ![worker[w].task.n] = @ + 1]
    /\ worker' = [worker EXCEPT ![w] = [pc |-> "get", task |-> NoTask,
                                        lines |-> 0]]
    /\ UNCHANGED <<ms, download_queue, sse_log, sse_first, accepted, reply,
                   qobuzVars, limiterVars>>

InitApp ==
    /\ LoggedInQobuz
    /\ LimiterIdle(1)
    /\ AppIdle

NextApp ==
    \/ MsTick
    \/ api_download
    \/ \E w \in Workers : WorkerGet(w)
    \/ \E w \in Workers : WorkerStarted(w)
    \/ \E w \in Workers : WorkerPopen(w)
    \/ \E w \in Workers : WorkerLine(w)
    \/ \E w \in Workers : WorkerExit(w)
    \/ \E w \in Workers : WorkerRaises(w)
    \/ \E w \in Workers : WorkerFinally(w)

\* The web application's download queue and its workers.
SpecApp == InitApp /\ [][NextApp]_vars

\* The worker threads are scheduled fairly: a worker that can take its next
\* step takes it; and every rip process terminates: its output ends.
FairWorkers ==
    \A w \in Workers :
        /\ WF_vars(WorkerGet(w))
        /\ WF_vars(WorkerStarted(w))
        /\ WF_vars(WorkerPopen(w))
        /\ WF_vars(WorkerExit(w))
        /\ WF_vars(WorkerFinally(w))

\* The download queue and its workers under fair scheduling.
SpecAppFair == InitApp /\ [][NextApp]_vars /\ FairWorkers

\* ================================================================= claims
\* The fixed mapping of quality levels to format ids, as the specification
\* states it.
FormatIdOf(q) == CASE q = 1 -> 5 [] q = 2 -> 6 [] q = 3 -> 7 [] q = 4 -> 27

LastOf(s) == s[Len(s)]

\* C1: get_quality(q) is (5,6,7,27)[q-1] for q in 1..4 and rejects every other
\* integer, so that no track/getFileUrl request carries a format id for a
\* level outside 1..4: a resolve called with such a level raises and sends
\* nothing.
C1_OutOfRangeRejected ==
    /\ (call = "resolve" /\ callQ \notin 1..4) =>
           (outcome = "IndexError" /\ sent = <<>>)
    /\ \A i \in 1..Len(sent) :
           /\ sent[i].quality \in 1..4
           /\ sent[i].format_id = FormatIdOf(sent[i].quality)

\* C2: a login() that finds the identity or the secret/token empty fails with
\* MissingCredentialsError, having issued no network call (no discovery fetch,
\* no user/login, no signed probe) and without setting logged_in.
C2_MissingCredentialsBeforeNetwork ==
    (call = "login" /\ (cfg.email_or_userid = "" \/ cfg.password_or_token = ""))
    => /\ pc = "idle"
       /\ outcome = "MissingCredentialsError"
       /\ netCalls = 0
       /\ bundle = <<>> /\ loginResps = <<>> /\ tried = <<>>
       /\ ~discRan
       /\ logged_in = start.logged_in

C2_Witness ==
    /\ call = "login"
    /\ outcome = "MissingCredentialsError"
    /\ cfg.email_or_userid = "user"
    /\ cfg.password_or_token = ""
    /\ cfg.app_id = ""

\* C3: once user/login has succeeded, login() probes the secrets of
\* cfg.secrets one at a time in list order and stops at the first the server
\* accepts, which becomes self.secret; when the server accepts none login()
\* fails with InvalidAppSecretError and logged_in stays as it was (false on a
\* client that was not logged in).
C3_FirstAcceptedSecret ==
    call = "login" =>
       /\ Len(tried) <= Len(cfg.secrets)
       /\ \A i \in 1..Len(tried) :
             /\ tried[i].secret = cfg.secrets[i]
             /\ i < Len(tried) => ~tried[i].accepted
       /\ tried # <<>> =>
             /\ loginResps # <<>>
             /\ "X-User-Auth-Token" \in headers
       /\ outcome = "ok" =>
             /\ tried # <<>>
             /\ LastOf(tried).accepted
             /\ secret = LastOf(tried).secret
             /\ logged_in
       /\ (pc = "idle" /\ tried # <<>> /\ ~LastOf(tried).accepted) =>
             /\ outcome = "InvalidAppSecretError"
             /\ Len(tried) = Len(cfg.secrets)
             /\ logged_in = start.logged_in
       /\ outcome = "InvalidAppSecretError" =>
             /\ Len(tried) = Len(cfg.secrets)
             /\ \A i \in 1..Len(tried) : ~tried[i].accepted

C3_Witness ==
    /\ call = "login"
    /\ outcome = "ok"
    /\ Len(tried) = 2
    /\ ~tried[1].accepted
    /\ secret = cfg.secrets[2]
    /\ secret # cfg.secrets[1]

\* login() has failed with e, with no X-User-Auth-Token header attached, no
\* secret probed and logged_in left as it was.
C4_Failed(e) ==
    /\ pc = "idle"
    /\ outcome = e
    /\ "X-User-Auth-Token" \notin headers
    /\ tried = <<>>
    /\ logged_in = start.logged_in

\* C4: on the user/login response, 401 makes login() fail with
\* AuthenticationError, 400 with InvalidAppIdError, and a 200 whose credential
\* parameters are empty with IneligibleError; in each case no
\* X-User-Auth-Token header is attached, no secret is probed and logged_in is
\* left as it was.
C4_LoginResponseErrors ==
    (call = "login" /\ loginResps # <<>>) =>
       /\ loginResps[1].status = 401 => C4_Failed("AuthenticationError")
       /\ loginResps[1].status = 400 => C4_Failed("InvalidAppIdError")
       /\ (loginResps[1].status = 200
             /\ loginResps[1].body = "empty-parameters")
          => C4_Failed("IneligibleError")

C4_Witness ==
    /\ call = "login"
    /\ loginResps # <<>>
    /\ loginResps[1].status = 400
    /\ outcome = "InvalidAppIdError"
    /\ start.logged_in

\* C5: a resolve (of a level in 1..4) whose file-URL response has a status
\* other than 200, an empty body or no url field fails with
\* NonStreamableError and with no other error, after exactly one request.
C5_ResolveNonStreamable ==
    (call = "resolve" /\ callQ \in 1..4 /\ resps # <<>>) =>
       /\ Len(sent) = 1
       /\ (\/ resps[1].status # 200
           \/ resps[1].body.kind = "null"
           \/ ~resps[1].body.url)
          => outcome = "NonStreamableError"

\* min(max(max_quality, 1), 4) of the probe's argument.
C6_Clamped == IF callQ < 1 THEN 1 ELSE IF callQ > 4 THEN 4 ELSE callQ

\* C6: for every integer max_quality the probe returns exactly
\* m = min(max(max_quality, 1), 4) entries, of quality levels m, m-1, ..., 1
\* in that order, each with the format id of its level; while it runs, the
\* entries recorded so far are the head of that list.
C6_ProbeDescending ==
    call = "probe" =>
       /\ Len(results) <= C6_Clamped
       /\ \A i \in 1..Len(results) :
             /\ results[i].quality_level = C6_Clamped - i + 1
             /\ results[i].format_id = FormatIdOf(C6_Clamped - i + 1)
       /\ (pc = "idle" /\ outcome = "ok") => Len(results) = C6_Clamped

C6_Witness ==
    /\ call = "probe"
    /\ pc = "idle"
    /\ outcome = "ok"
    /\ callQ = 3
    /\ Len(results) = 3
    /\ results[1].quality_level = 3
    /\ results[2].quality_level = 2
    /\ results[3].quality_level = 1

\* A 400 whose body holds the phrase.
C7_SignatureRejection(r) ==
    /\ r.status = 400
    /\ (r.body.message = "Invalid Request Signature"
          \/ r.body.error = "Invalid Request Signature")

\* C7: in the probe a second request for the same tier is sent if and only if
\* the first response is a 400 whose body holds "Invalid Request Signature";
\* a tier never gets more than two requests; and when the retry's response is
\* a 200 with a url the tier is recorded as available.
C7_RetryOnceOnSignatureRejection ==
    call = "probe" =>
       /\ Len(sent) <= 2
       /\ Len(resps) <= Len(sent)
       /\ inflight = Len(sent) - Len(resps)
       /\ resps # <<>> => (Len(sent) = 2 <=> C7_SignatureRejection(resps[1]))
       /\ Len(sent) = 2 =>
             /\ sent[2].track_id = sent[1].track_id
             /\ sent[2].quality = sent[1].quality
             /\ sent[2].format_id = sent[1].format_id
       /\ (Len(resps) = 2 /\ resps[2].status = 200 /\ resps[2].body.url) =>
             /\ results # <<>>
             /\ LastOf(results).available
             /\ LastOf(results).quality_level = sent[1].quality

C7_Witness ==
    /\ call = "probe"
    /\ Len(resps) = 2
    /\ C7_SignatureRejection(resps[1])
    /\ resps[2].status = 200
    /\ resps[2].body.url
    /\ results # <<>>
    /\ LastOf(results).available

\* C8: the probe never raises because of one tier's response: whatever status
\* and body a tier's final response has, one entry is recorded for the tier,
\* available exactly when the response is a 200 with a url, and otherwise
\* carrying the body's message or error; the lower tiers are still probed.
C8_ProbeNeverRaises ==
    call = "probe" =>
       /\ outcome \in {"running", "ok"}
       /\ (resps # <<>> /\ pc \in {"probe_next", "idle"}) =>
             /\ results # <<>>
             /\ LastOf(results).quality_level = sent[1].quality
             /\ LastOf(results).available
                   = (LastOf(resps).status = 200 /\ LastOf(resps).body.url)
             /\ ~LastOf(results).available =>
                   LastOf(results).error
                      = IF LastOf(resps).body.message # None
                        THEN LastOf(resps).body.message
                        ELSE LastOf(resps).body.error

\* What C8 leaves when the bodies are JSON objects (kept as a lemma: it is the
\* part of the claim the code does meet).
C8_ObjectBodiesNeverRaise ==
    (call = "probe" /\ \A i \in 1..Len(resps) : resps[i].body.kind = "object")
    => outcome # "TypeError" /\ outcome # "AttributeError"

\* The discovery of this login returned (it did not raise).
DiscoveryReturned ==
    /\ discRan
    /\ bundle # <<>>
    /\ (pc # "idle" \/ loginResps # <<>>)

\* C9, as stated: login() invokes the discovery if and only if app_id or
\* secrets is empty when it runs; what the discovery returns is written to
\* the session identity and to the config file, which is marked modified;
\* without discovery the file is untouched; a login after such a discovery
\* does not discover again.
C9_DiscoveryIffEmpty ==
    call = "login" =>
       /\ discRan <=> start.needs
       /\ DiscoveryReturned =>
             /\ cfg.app_id = GetAppIdAndSecrets(bundle[1]).app_id
             /\ cfg.secrets = GetAppIdAndSecrets(bundle[1]).secrets
             /\ file.app_id = cfg.app_id
             /\ file.secrets = cfg.secrets
             /\ file.modified
       /\ ~discRan => file = start.file
       /\ start.file.modified => ~discRan

\* C9, as amended: the same, for a login() whose credentials are present; a
\* login() without credentials never invokes the discovery.
C9_DiscoveryIffEmptyGivenCredentials ==
    call = "login" =>
       /\ (cfg.email_or_userid # "" /\ cfg.password_or_token # "")
             => (discRan <=> start.needs)
       /\ (cfg.email_or_userid = "" \/ cfg.password_or_token = "")
             => ~discRan
       /\ DiscoveryReturned =>
             /\ cfg.app_id = GetAppIdAndSecrets(bundle[1]).app_id
             /\ cfg.secrets = GetAppIdAndSecrets(bundle[1]).secrets
             /\ cfg.app_id # "" /\ cfg.secrets # <<>>
             /\ file.app_id = cfg.app_id
             /\ file.secrets = cfg.secrets
             /\ file.modified
       /\ ~discRan => file = start.file
       /\ start.file.modified => ~discRan

C9_Witness ==
    /\ call = "login"
    /\ start.file.modified
    /\ ~start.needs
    /\ ~discRan
    /\ outcome = "ok"

\* The secrets of the timezones of bundle b taken in the order t1, t0, t2, ...
\* of their discovery order t0, t1, t2, ..., less the first empty string.
C10_Expected(b) ==
    LET t     == KeysInOrder(b.seeds)
        order == [i \in 1..Len(t) |->
                     IF i = 1 THEN t[2] ELSE IF i = 2 THEN t[1] ELSE t[i]]
    IN  RemoveFirst([i \in 1..Len(t) |->
                        Decode(order[i], ValueList(b, order[i]))], "")

\* C10: with the timezones discovered in bundle order t0, t1, t2, ..., the
\* discovery returns the secrets of t1, t0, t2, ... in that order (less the
\* empty string that lines 110-111 remove), and login probes them in that
\* order.
C10_SecondDiscoveredFirst ==
    (call = "login" /\ DiscoveryReturned) =>
       /\ cfg.secrets = C10_Expected(bundle[1])
       /\ \A i \in 1..Len(tried) :
             tried[i].secret = C10_Expected(bundle[1])[i]

C10_Witness ==
    /\ call = "login"
    /\ DiscoveryReturned
    /\ KeysInOrder(bundle[1].seeds) = <<"berlin", "london", "paris">>
    /\ Len(tried) = 3
    /\ tried[1].secret = "london-key"
    /\ tried[2].secret = "berlin-key"
    /\ tried[3].secret = "paris-key"

\* ------------------------------------------------- claims C11 to C20
\* The timezones of bundle b whose entry decodes, in the final map order.
C11_Decodable(b) ==
    SelectSeq(MoveSecondToFront(KeysInOrder(b.seeds)),
              LAMBDA tz : Decode(tz, ValueList(b, tz)) # DecodeError)

\* C11: a decode failure for the entry of one timezone does not abort the
\* discovery: whenever the bundle has the app id and at least two timezones,
\* the discovery returns, and the secret of every timezone whose entry
\* decodes to a non-empty text is among the returned secrets.
C11_DecodeFailureSkipped ==
    (call = "login" /\ bundle # <<>> /\ bundle[1].appid
        /\ Len(KeysInOrder(bundle[1].seeds)) >= 2) =>
       /\ outcome # DecodeError
       /\ DiscoveryReturned
       /\ \A i \in 1..Len(C11_Decodable(bundle[1])) :
             LET tz == C11_Decodable(bundle[1])[i]
             IN  Decode(tz, ValueList(bundle[1], tz)) # ""
                    => HasElem(cfg.secrets, SecretOf[tz])

\* C12: the secrets the discovery returns contain no empty string, however
\* many timezones decode to the empty string.
C12_NoEmptySecret ==
    (call = "login" /\ DiscoveryReturned) => ~HasElem(cfg.secrets, "")

\* C13: a discovery that fails on the scraped text fails with DiscoveryError
\* and nothing else: on a login page without the bundle path, before the
\* bundle is fetched; on a bundle without the app id.
C13_DiscoveryErrorOnly ==
    (call = "login" /\ discRan /\ pc = "idle" /\ loginResps = <<>>
        /\ outcome # "CancelledError") =>
       /\ outcome = "DiscoveryError"
       /\ bundle = <<>> => netCalls = 1
       /\ bundle # <<>> => ~bundle[1].appid

\* C15: within one probe the tiers are probed one after the other from high
\* to low: at most one file-URL request is in flight, and while a request for
\* tier q is in flight every higher tier has its entry, that is, every request
\* for a higher tier (its retry included) has had its response.
C15_ProbeSequential ==
    call = "probe" =>
       /\ inflight \in {0, 1}
       /\ inflight = Len(sent) - Len(resps)
       /\ pc \in {"probe_next", "idle"} => inflight = 0
       /\ pc = "probe_first" =>
             /\ Len(sent) = 1 /\ resps = <<>>
             /\ sent[1].quality = cur
       /\ pc = "probe_retry" =>
             /\ Len(sent) = 2 /\ Len(resps) = 1
             /\ sent[2].quality = cur
       /\ pc \in {"probe_first", "probe_retry"} =>
             /\ inflight = 1
             /\ Len(results) = C6_Clamped - cur
       /\ \A i \in 1..Len(results) :
             results[i].quality_level = C6_Clamped - i + 1

C15_Witness ==
    /\ call = "probe"
    /\ pc = "probe_retry"
    /\ cur = 2
    /\ Len(results) = 2
    /\ inflight = 1

\* C16: the session the discovery opens on entering its scope is closed however
\* the scope is left (the discovery returns, fails, or is cancelled): it is
\* open only while the discovery awaits the login page or the bundle, and no
\* call ends with it open.
C16_SpooferSessionClosed ==
    /\ spooferOpen =>
          /\ call = "login" /\ discRan
          /\ pc \in {"disc_page", "disc_bundle"}
    /\ pc \in {"disc_page", "disc_bundle"} => spooferOpen
    /\ pc = "idle" => ~spooferOpen

C16_Witness ==
    /\ call = "login"
    /\ discRan
    /\ pc = "idle"
    /\ outcome = "CancelledError"
    /\ netCalls = 2
    /\ ~spooferOpen

\* The inputs of a signature, and the ones a signed request is compared with.
SigInputs ==
    [track_id : Tracks, format_id : {5, 6, 7, 27}, ts : 0..MaxTs,
     secret : {"berlin-key", "london-key", "paris-key"}]

C17_InputsOf(req) ==
    [track_id |-> req.track_id, format_id |-> req.format_id,
     ts |-> req.request_ts, secret |-> secret]

C17_Differences(a, b) ==
    Cardinality({f \in {"track_id", "format_id", "ts", "secret"} :
                    a[f] # b[f]})

\* C17: the signed text is a function of (track id, format id, timestamp,
\* secret): the text of a request with the same four inputs as a request sent
\* is the same text, and the text of a request that differs from it in
\* exactly one of the four is a different text.
C17_SignatureDeterministic ==
    \A i \in 1..Len(sent) : \A b \in SigInputs :
        LET a == C17_InputsOf(sent[i])
            t == SignedString(b.track_id, b.format_id, b.ts, b.secret)
        IN  /\ b = a => t = sent[i].signed
            /\ C17_Differences(a, b) = 1 => t # sent[i].signed

C17_Witness ==
    /\ call = "resolve"
    /\ Len(sent) = 1
    /\ C17_InputsOf(sent[1]) \in SigInputs
    /\ secret = "london-key"
    /\ sent[1].track_id = <<"1", "7", "1">>
    /\ sent[1].format_id = 27

\* The signed text as the specification states it: "trackgetFileUrlformat_id"
\* + formatId + "intentstream" + "track_id" + trackId + ts + secret.
C18_SignedText(track_id, format_id, ts, sec) ==
    <<"trackgetFileUrlformat_id">> \o Str(format_id)
        \o <<"intentstreamtrack_id">> \o track_id \o TsStr(ts)
        \o SecretText(sec)

\* C18: every track/getFileUrl request is self-consistent: the text signed is
\* made of the track_id, format_id and request_ts the request sends and of
\* the client's active secret; the format_id is the format id of the level
\* asked for and not the level; the track_id is the track asked for; intent
\* is "stream"; and the timestamp of each request, the probe's retry
\* included, is the time at which that request is sent.
C18_RequestSelfConsistent ==
    /\ \A i \in 1..Len(sent) :
          /\ sent[i].format_id \in {5, 6, 7, 27}
          /\ sent[i].quality \in 1..4 =>
                /\ sent[i].format_id = FormatIdOf(sent[i].quality)
                /\ sent[i].format_id # sent[i].quality
          /\ sent[i].signed = C18_SignedText(sent[i].track_id,
                                  sent[i].format_id, sent[i].request_ts, secret)
          /\ sent[i].track_id = track
          /\ sent[i].intent = "stream"
    /\ pc \in {"file_url", "probe_first", "probe_retry"} =>
          LastOf(sent).request_ts = clock
    /\ Len(sent) = 2 => sent[2].request_ts # sent[1].request_ts

C18_Witness ==
    /\ call = "probe"
    /\ pc = "probe_retry"
    /\ Len(sent) = 2
    /\ sent[2].request_ts = clock
    /\ sent[1].request_ts # clock
    /\ sent[2].format_id = 27

\* C20: whenever logged_in is true between two calls, the active secret is
\* set and the headers of the client's session hold both X-App-Id and
\* X-User-Auth-Token, whatever login() calls came before.
C20_LoggedInSessionAuthenticated ==
    (pc = "idle" /\ logged_in) =>
       /\ secret # None
       /\ "X-App-Id" \in headers
       /\ "X-User-Auth-Token" \in headers

\* C14: a vendor API call is in flight only while its caller holds a permit of
\* the limiter; the calls admitted in a minute never exceed
\* requests_per_minute; and a caller whose call has completed, by a response
\* or by an exception, holds no permit.
C14_RateLimited ==
    /\ admitted <= requests_per_minute
    /\ \A c \in Callers :
          /\ apiPc[c] = "in_flight" =>
                /\ c \in holders
                /\ apiUrl[c] \in Endpoints
          /\ apiPc[c] \in {"idle", "acquire"} => c \notin holders
          /\ apiOut[c] \in {"returned", "raised"} =>
                (apiPc[c] = "idle" /\ c \notin holders)

C14_Witness ==
    /\ requests_per_minute = 2
    /\ admitted = 2
    /\ apiOut[1] = "raised" /\ 1 \notin holders
    /\ apiPc[2] = "in_flight" /\ apiUrl[2] = "track/getFileUrl"
    /\ apiPc[3] = "acquire"

C19_Terminal == {"download_completed", "download_error"}

\* The task of rank n has been taken off the queue and its worker is done
\* with it.
C19_Finished(n) ==
    /\ n <= accepted - Len(download_queue)
    /\ \A w \in Workers : worker[w].task.n # n

\* C19: for every task taken from the queue, download_started is broadcast
\* with its id before any download_progress, download_completed or
\* download_error of that task, all its events carry its id, and it gets at
\* most one terminal event, exactly one once its worker is done with it; and
\* the first event broadcast with any id is a download_started.
C19_StartedFirstOneTerminal ==
    /\ \A n \in 1..MaxTasks :
          LET log  == sse_log[n]
              term == {j \in 1..Len(log) : log[j].type \in C19_Terminal}
          IN  /\ log # <<>> =>
                    /\ n <= accepted - Len(download_queue)
                    /\ log[1].type = "download_started"
              /\ \A j \in 2..Len(log) :
                    /\ log[j].type # "download_started"
                    /\ log[j].id = log[1].id
              /\ \A w \in Workers :
                    (worker[w].task.n = n /\ log # <<>>)
                        => log[1].id = worker[w].task.id
              /\ Cardinality(term) <= 1
              /\ \A j \in term : j = Len(log)
              /\ C19_Finished(n) => Cardinality(term) = 1
    /\ \A id \in 0..MaxMs : sse_first[id] \in {None, "download_started"}

C19_Witness ==
    /\ accepted = 2
    /\ C19_Finished(1) /\ C19_Finished(2)
    /\ sse_log[1][1].id = sse_log[2][1].id
    /\ sse_log[1][Len(sse_log[1])].type = "download_error"
    /\ Len(sse_log[1]) = 3
    /\ sse_log[2][Len(sse_log[2])].type = "download_completed"

\* The tasks with an id to show: queued, held by a worker, or with events.
C21_Known ==
    {download_queue[i] : i \in 1..Len(download_queue)}
    \cup {worker[w].task : w \in {v \in Workers : worker[v].task.n > 0}}
    \cup {[id |-> sse_log[n][1].id, n |-> n] :
             n \in {k \in 1..MaxTasks : sse_log[k] # <<>>}}

\* C21: any two tasks api_download has queued have distinct ids, and the
\* active_downloads entry of a task a worker is executing is that task's
\* (neither overwritten by another task nor removed by another task's
\* cleanup).
C21_DistinctTaskIds ==
    /\ \A t1, t2 \in C21_Known : t1.n # t2.n => t1.id # t2.id
    /\ \A w \in Workers :
          worker[w].pc # "get" => worker[w].task \in active_downloads

\* C22: active_downloads holds at most MAX_CONCURRENT_DOWNLOADS entries, each
\* the task of a worker that is executing it; and once a worker is done with
\* a task, however the task ended, the task has no entry, has had its
\* terminal event and has had task_done called exactly once, which no other
\* task has had.
C22_ActiveDownloadsBounded ==
    /\ Cardinality(active_downloads) <= MAX_CONCURRENT_DOWNLOADS
    /\ \A e \in active_downloads :
          \E w \in Workers : worker[w].pc # "get" /\ worker[w].task = e
    /\ \A n \in 1..MaxTasks :
          /\ C19_Finished(n) =>
                /\ task_done[n] = 1
                /\ \A e \in active_downloads : e.n # n
                /\ sse_log[n] # <<>>
                /\ sse_log[n][Len(sse_log[n])].type \in C19_Terminal
          /\ ~C19_Finished(n) => task_done[n] = 0

C22_Witness ==
    /\ accepted = 2
    /\ C19_Finished(1) /\ C19_Finished(2)
    /\ task_done[1] = 1 /\ task_done[2] = 1
    /\ active_downloads = {}
    /\ sse_log[1][1].id = sse_log[2][1].id
    /\ sse_log[1][Len(sse_log[1])].status = "failed"
    /\ sse_log[2][Len(sse_log[2])].type = "download_error"

\* The task of rank n has been taken by a worker and has had its terminal
\* event.
C23_Terminated(n) ==
    /\ n <= accepted - Len(download_queue)
    /\ sse_log[n] # <<>>
    /\ sse_log[n][Len(sse_log[n])].type \in C19_Terminal

\* C23: under fair scheduling of the workers, and with every rip process
\* terminating, every task api_download has queued is eventually taken by a
\* worker and eventually has its terminal event: again and again every task
\* queued so far has been taken and has had its terminal event, and a task
\* stays queued and stays terminated. api_download queues exactly one task
\* when it answers "queued", and one that answers 400 leaves the queue as it
\* was.
C23_AcceptedEventuallyTerminal ==
    /\ []<>(\A n \in 1..MaxTasks : accepted >= n => C23_Terminated(n))
    /\ [][/\ accepted' >= accepted
          /\ \A n \in 1..MaxTasks :
                C23_Terminated(n) => C23_Terminated(n)'
          /\ accepted' # accepted =>
                /\ accepted' = accepted + 1
                /\ reply'.status = 200
                /\ download_queue' =
                      Append(download_queue, [id |-> reply'.task_id,
                                              n |-> accepted'])
          /\ (reply' # reply /\ reply'.status = 400) =>
                UNCHANGED <<download_queue, accepted>>
          /\ Len(download_queue') > Len(download_queue) =>
                accepted' # accepted]_vars

C23_Witness ==
    /\ accepted = 2
    /\ reply.status = 400
    /\ C23_Terminated(1)
    /\ C23_Terminated(2)
    /\ download_queue = <<>>

=============================================================================
